---------------------------- MODULE Spec2Model ----------------------------
(***************************************************************************)
(* A model of basicsudoku: the SudokuBoard class (basicsudoku/__init__.py) *)
(* and the constraint-propagation + backtracking BasicSolver               *)
(* (basicsudoku/solvers.py).                                               *)
(*                                                                         *)
(* Symbols are the one-character strings "1".."9" and "." as in the        *)
(* source.  A "symbols string" is a sequence of such characters, indexed   *)
(* from 1 (Python index i is TLA+ index i+1).  The board is the nested     *)
(* list _board[x][y], and the solver's board_candidates is the nested list *)
(* of sets board_candidates[x][y].                                         *)
(***************************************************************************)
EXTENDS Integers, Sequences, FiniteSets, TLC

----------------------------------------------------------------------------
(* Program constants                                                       *)

EMPTY_SPACE == "."

BOARD_LENGTH == 9

BOARD_LENGTH_SQRT == 3

FULL_BOARD_SIZE == BOARD_LENGTH * BOARD_LENGTH

\* set('123456789')
AllSymbols == {"1", "2", "3", "4", "5", "6", "7", "8", "9"}

\* the symbols in ascending order
Ascending == <<"1", "2", "3", "4", "5", "6", "7", "8", "9">>

Coord == 0 .. (BOARD_LENGTH - 1)

Cells == Coord \X Coord

----------------------------------------------------------------------------
(* SudokuBoard                                                             *)

\* clear_board: every space of _board is EMPTY_SPACE
clear_board == [x \in Coord |-> [y \in Coord |-> EMPTY_SPACE]]

is_valid_symbol(symbol) == symbol \in (AllSymbols \cup {EMPTY_SPACE})

\* no symbol other than EMPTY_SPACE is repeated in the unit
is_valid_unit(unit) ==
    \A i \in 1 .. Len(unit) : \A j \in 1 .. Len(unit) :
        (i < j /\ unit[j] # EMPTY_SPACE) => unit[i] # unit[j]

get_row(b, row) == [k \in 1 .. BOARD_LENGTH |-> b[k - 1][row]]

get_column(b, column) == [k \in 1 .. BOARD_LENGTH |-> b[column][k - 1]]

get_box(b, box_x, box_y) ==
    [k \in 1 .. BOARD_LENGTH |->
        b[box_x * BOARD_LENGTH_SQRT + ((k - 1) % BOARD_LENGTH_SQRT)]
         [box_y * BOARD_LENGTH_SQRT + ((k - 1) \div BOARD_LENGTH_SQRT)]]

\* is_valid_board without the check of the boxes
is_valid_board_no_boxes(b) ==
    /\ \A x \in Coord : is_valid_unit(get_column(b, x))
    /\ \A y \in Coord : is_valid_unit(get_row(b, y))

is_valid_board(b) ==
    /\ \A x \in Coord : is_valid_unit(get_column(b, x))
    /\ \A y \in Coord : is_valid_unit(get_row(b, y))
    /\ \A top \in 0 .. (BOARD_LENGTH_SQRT - 1) :
          \A left \in 0 .. (BOARD_LENGTH_SQRT - 1) :
              is_valid_unit(get_box(b, left, top))

\* is_full with the scan for an empty space left out
is_full_always(b) == TRUE

is_full(b) == \A x \in Coord : \A y \in Coord : b[x][y] # EMPTY_SPACE

\* is_solved without the check of validity
is_solved_when_full(b) == is_full(b)

is_solved(b) == is_full(b) /\ is_valid_board(b)

\* the symbols getter reading the board column after column
symbols_get_by_column(b) ==
    [i \in 1 .. FULL_BOARD_SIZE |->
        b[(i - 1) \div BOARD_LENGTH][(i - 1) % BOARD_LENGTH]]

\* the symbols property (getter): row after row, left to right
symbols_get(b) ==
    [i \in 1 .. FULL_BOARD_SIZE |->
        b[(i - 1) % BOARD_LENGTH][(i - 1) \div BOARD_LENGTH]]

\* the placement loop filling the board column after column
place_symbols_by_column(value) ==
    [x \in Coord |-> [y \in Coord |-> value[x * BOARD_LENGTH + y + 1]]]

\* the placement loop of the symbols setter: _board[i % 9][i // 9] = symbol
place_symbols(value) ==
    [x \in Coord |-> [y \in Coord |-> value[y * BOARD_LENGTH + x + 1]]]

\* the symbols setter placing the symbols up to the first invalid one
symbols_set_places_first(b, isStrict, value) ==
    IF Len(value) # FULL_BOARD_SIZE
    THEN [raised |-> TRUE, board |-> b]
    ELSE IF \E i \in 1 .. Len(value) : ~ is_valid_symbol(value[i])
    THEN [raised |-> TRUE,
          board |-> [x \in Coord |-> [y \in Coord |->
                       IF \A i \in 1 .. (y * BOARD_LENGTH + x + 1) :
                              is_valid_symbol(value[i])
                       THEN value[y * BOARD_LENGTH + x + 1]
                       ELSE b[x][y]]]]
    ELSE IF isStrict /\ ~ is_valid_board(place_symbols(value))
    THEN [raised |-> TRUE, board |-> clear_board]
    ELSE [raised |-> FALSE, board |-> place_symbols(value)]

\* the symbols setter putting the previous contents back when the new
\* ones are invalid on a strict board
symbols_set_restores(b, isStrict, value) ==
    IF Len(value) # FULL_BOARD_SIZE
    THEN [raised |-> TRUE, board |-> b]
    ELSE IF \E i \in 1 .. Len(value) : ~ is_valid_symbol(value[i])
    THEN [raised |-> TRUE, board |-> b]
    ELSE IF isStrict /\ ~ is_valid_board(place_symbols(value))
    THEN [raised |-> TRUE, board |-> b]
    ELSE [raised |-> FALSE, board |-> place_symbols(value)]

\* the symbols property (setter) on a board with the given strict flag.
\* The result is the board afterwards and whether SudokuBoardException
\* was raised.
symbols_set(b, isStrict, value) ==
    IF Len(value) # FULL_BOARD_SIZE
    THEN [raised |-> TRUE, board |-> b]
    ELSE IF \E i \in 1 .. Len(value) : ~ is_valid_symbol(value[i])
    THEN [raised |-> TRUE, board |-> b]
    ELSE IF isStrict /\ ~ is_valid_board(place_symbols(value))
    THEN [raised |-> TRUE, board |-> clear_board]
    ELSE [raised |-> FALSE, board |-> place_symbols(value)]

----------------------------------------------------------------------------
(* BasicSolver: propagation                                                *)

\* board_candidates as solve() creates it
initial_candidates == [x \in Coord |-> [y \in Coord |-> AllSymbols]]

\* tuple(s)[0] of a set with one element
the_one(s) == CHOOSE c \in s : TRUE

\* remove_from_peers taking candidate_x // 3, candidate_y // 3 for the top
\* left space of the box
peer_order_box_unscaled(candidate_x, candidate_y) ==
    LET start_x == candidate_x \div 3
        start_y == candidate_y \div 3
        row == SelectSeq([k \in 1 .. BOARD_LENGTH |-> <<k - 1, candidate_y>>],
                         LAMBDA p : p[1] # candidate_x)
        col == SelectSeq([k \in 1 .. BOARD_LENGTH |-> <<candidate_x, k - 1>>],
                         LAMBDA p : p[2] # candidate_y)
        box == SelectSeq([k \in 1 .. BOARD_LENGTH |->
                             <<start_x + ((k - 1) % BOARD_LENGTH_SQRT),
                               start_y + ((k - 1) \div BOARD_LENGTH_SQRT)>>],
                         LAMBDA p : p[1] # candidate_x /\ p[2] # candidate_y)
    IN  row \o col \o box

\* remove_from_peers without the loop over the box
peer_order_no_box(candidate_x, candidate_y) ==
    SelectSeq([k \in 1 .. BOARD_LENGTH |-> <<k - 1, candidate_y>>],
              LAMBDA p : p[1] # candidate_x)
    \o SelectSeq([k \in 1 .. BOARD_LENGTH |-> <<candidate_x, k - 1>>],
                 LAMBDA p : p[2] # candidate_y)

\* The spaces remove_from_peers visits, in the order it visits them: the
\* row of the space, its column, then the rest of its box.
peer_order(candidate_x, candidate_y) ==
    LET start_x == (candidate_x \div 3) * BOARD_LENGTH_SQRT
        start_y == (candidate_y \div 3) * BOARD_LENGTH_SQRT
        row == SelectSeq([k \in 1 .. BOARD_LENGTH |-> <<k - 1, candidate_y>>],
                         LAMBDA p : p[1] # candidate_x)
        col == SelectSeq([k \in 1 .. BOARD_LENGTH |-> <<candidate_x, k - 1>>],
                         LAMBDA p : p[2] # candidate_y)
        box == SelectSeq([k \in 1 .. BOARD_LENGTH |->
                             <<start_x + ((k - 1) % BOARD_LENGTH_SQRT),
                               start_y + ((k - 1) \div BOARD_LENGTH_SQRT)>>],
                         LAMBDA p : p[1] # candidate_x /\ p[2] # candidate_y)
    IN  row \o col \o box

\* peer_order of every space, as a table written out once
peer_table ==
    [x \in Coord |-> ([y \in Coord |-> peer_order(x, y)] @@ << >>)] @@ << >>

\* A propagation state st: the candidate sets st.bc; st.raised, whether
\* SudokuBoardException has been raised (it unwinds every loop and call
\* of the propagation); st.calls, the activations of remove_from_peers,
\* innermost last, each with its candidate, its space and the number k of
\* the peer its loops visit next; and st.g, the number of spaces the loop
\* of remove_givens_from_board_candidates has visited.
\* set_symbol whose call of remove_from_peers never returns to its
\* callers: their loops are given up
set_symbol_drops_callers(st, symbol, symbol_x, symbol_y) ==
    [st EXCEPT !.bc[symbol_x][symbol_y] = {symbol},
               !.calls = <<[candidate |-> symbol, x |-> symbol_x,
                            y |-> symbol_y, k |-> 1]>>]

\* set_symbol: the space holds only this symbol, and remove_from_peers is
\* called for it
set_symbol(st, symbol, symbol_x, symbol_y) ==
    [st EXCEPT !.bc[symbol_x][symbol_y] = {symbol},
               !.calls = Append(@, [candidate |-> symbol, x |-> symbol_x,
                                    y |-> symbol_y, k |-> 1])]

\* remove_candidate without the call of set_symbol for a space that is
\* down to one candidate
remove_candidate_no_recursion(st, candidate, x, y) ==
    IF candidate \in st.bc[x][y]
    THEN LET rest == st.bc[x][y] \ {candidate}
         IN  IF Cardinality(rest) = 0
             THEN [st EXCEPT !.bc[x][y] = rest, !.raised = TRUE]
             ELSE [st EXCEPT !.bc[x][y] = rest]
    ELSE st

\* remove_candidate without the raise when no candidate is left
remove_candidate_no_raise(st, candidate, x, y) ==
    IF candidate \in st.bc[x][y]
    THEN LET rest == st.bc[x][y] \ {candidate}
         IN  IF Cardinality(rest) = 1
             THEN set_symbol([st EXCEPT !.bc[x][y] = rest], the_one(rest), x, y)
             ELSE [st EXCEPT !.bc[x][y] = rest]
    ELSE st

remove_candidate(st, candidate, x, y) ==
    IF candidate \in st.bc[x][y]
    THEN LET rest == st.bc[x][y] \ {candidate}
         IN  IF Cardinality(rest) = 1
             THEN set_symbol([st EXCEPT !.bc[x][y] = rest], the_one(rest), x, y)
             ELSE IF Cardinality(rest) = 0
             THEN [st EXCEPT !.bc[x][y] = rest, !.raised = TRUE]
             ELSE [st EXCEPT !.bc[x][y] = rest]
    ELSE st

\* The innermost remove_from_peers goes on by one pass of its loops: it
\* calls remove_candidate for the next peer, or returns after the last.
remove_from_peers_step(st) ==
    LET n == Len(st.calls)
        call == st.calls[n]
        peers == peer_table[call.x][call.y]
    IN  IF call.k > Len(peers)
        THEN [st EXCEPT !.calls = SubSeq(@, 1, n - 1)]
        ELSE remove_candidate([st EXCEPT !.calls[n].k = call.k + 1],
                              call.candidate,
                              peers[call.k][1], peers[call.k][2])

\* givens_step reading self.board[y, x] for the space x y
givens_step_transposed(st, b) ==
    LET x == st.g \div BOARD_LENGTH
        y == st.g % BOARD_LENGTH
    IN  IF b[y][x] # EMPTY_SPACE
        THEN set_symbol([st EXCEPT !.g = @ + 1], b[y][x], x, y)
        ELSE [st EXCEPT !.g = @ + 1]

\* One pass of the loop of remove_givens_from_board_candidates (x is the
\* outer loop, y the inner); b is None when no such loop is running.
givens_step(st, b) ==
    LET x == st.g \div BOARD_LENGTH
        y == st.g % BOARD_LENGTH
    IN  IF b[x][y] # EMPTY_SPACE
        THEN set_symbol([st EXCEPT !.g = @ + 1], b[x][y], x, y)
        ELSE [st EXCEPT !.g = @ + 1]

\* the propagation has returned or raised
returned(st) ==
    st.raised \/ (st.calls = << >> /\ st.g >= FULL_BOARD_SIZE)

propagation_step(st, b) ==
    IF st.calls # << >> THEN remove_from_peers_step(st) ELSE givens_step(st, b)

\* up to 2^n steps of the propagation
RECURSIVE propagation_steps(_, _, _)

propagation_steps(st, b, n) ==
    IF returned(st) THEN st
    ELSE IF n = 0 THEN propagation_step(st, b)
    ELSE CHOOSE r \in {propagation_steps(half, b, n - 1) :
                          half \in {propagation_steps(st, b, n - 1)}} : TRUE

\* the propagation runs until it returns or raises
RECURSIVE propagate(_, _)

propagate(st, b) ==
    IF returned(st) THEN st
    ELSE CHOOSE r \in {propagate(next, b) :
                          next \in {propagation_steps(st, b, 11)}} : TRUE

\* remove_from_peers(candidate, board_candidates, candidate_x, candidate_y)
\* called from solve_through_search
remove_from_peers(bc, candidate, candidate_x, candidate_y) ==
    propagate([raised |-> FALSE, bc |-> bc, g |-> FULL_BOARD_SIZE,
               calls |-> <<[candidate |-> candidate, x |-> candidate_x,
                            y |-> candidate_y, k |-> 1]>>],
              clear_board)

remove_givens_from_board_candidates(b, bc) ==
    propagate([raised |-> FALSE, bc |-> bc, g |-> 0, calls |-> << >>], b)

\* givens_step_enumerate taking the space as x, y = i // 9, i % 9
givens_step_enumerate_transposed(st, b) ==
    LET x == st.g \div BOARD_LENGTH
        y == st.g % BOARD_LENGTH
        symbol == symbols_get(b)[st.g + 1]
    IN  IF symbol # EMPTY_SPACE
        THEN set_symbol([st EXCEPT !.g = @ + 1], symbol, x, y)
        ELSE [st EXCEPT !.g = @ + 1]

\* One pass of the loop of remove_givens_from_board_candidates of the
\* BasicSolver in basicsudoku/__init__.py: "for i, symbol in
\* enumerate(self.board)" yields the symbols row after row, and the space
\* is x, y = i % 9, i // 9.
givens_step_enumerate(st, b) ==
    LET x == st.g % BOARD_LENGTH
        y == st.g \div BOARD_LENGTH
        symbol == symbols_get(b)[st.g + 1]
    IN  IF symbol # EMPTY_SPACE
        THEN set_symbol([st EXCEPT !.g = @ + 1], symbol, x, y)
        ELSE [st EXCEPT !.g = @ + 1]

\* One step of the propagation of the BasicSolver of module impl.  The
\* two classes differ in remove_givens_from_board_candidates only:
\* set_symbol, remove_from_peers and remove_candidate have the same text.
propagation_step_of(impl, st, b) ==
    IF st.calls # << >> THEN remove_from_peers_step(st)
    ELSE IF impl = "__init__" THEN givens_step_enumerate(st, b)
    ELSE givens_step(st, b)

\* make_board_from_candidates with the coordinates of a space exchanged
make_board_from_candidates_transposed(bc) ==
    place_symbols([i \in 1 .. FULL_BOARD_SIZE |->
        LET x == (i - 1) % BOARD_LENGTH
            y == (i - 1) \div BOARD_LENGTH
        IN  IF Cardinality(bc[y][x]) = 1 THEN the_one(bc[y][x])
            ELSE EMPTY_SPACE])

\* make_board_from_candidates(...)._board: the symbol where one candidate
\* is left, EMPTY_SPACE elsewhere, passed through the symbols setter of a
\* non-strict board
make_board_from_candidates(bc) ==
    place_symbols([i \in 1 .. FULL_BOARD_SIZE |->
        LET x == (i - 1) % BOARD_LENGTH
            y == (i - 1) \div BOARD_LENGTH
        IN  IF Cardinality(bc[x][y]) = 1 THEN the_one(bc[x][y])
            ELSE EMPTY_SPACE])

----------------------------------------------------------------------------
(* BasicSolver: search                                                     *)

\* len(board_candidates[i % 9][i // 9])
len_at(bc, i) == Cardinality(bc[i % BOARD_LENGTH][i \div BOARD_LENGTH])

\* order_of_spaces_to_check with every space in it
order_of_spaces_to_check_all(bc) == 0 .. (FULL_BOARD_SIZE - 1)

\* order_of_spaces_to_check before it is sorted, as a set
order_of_spaces_to_check(bc) ==
    {i \in 0 .. (FULL_BOARD_SIZE - 1) : len_at(bc, i) # 1}

\* space_to_check without the sort: the first space in the list
space_to_check_unsorted(bc) ==
    CHOOSE i \in order_of_spaces_to_check(bc) :
        \A j \in order_of_spaces_to_check(bc) : i <= j

\* order_of_spaces_to_check[0] after the stable sort by number of
\* candidates: of the spaces with the fewest candidates, the one that
\* came first before the sort
space_to_check(bc) ==
    CHOOSE i \in order_of_spaces_to_check(bc) :
        \A j \in 0 .. (FULL_BOARD_SIZE - 1) :
            \/ len_at(bc, j) = 1
            \/ len_at(bc, i) < len_at(bc, j)
            \/ (len_at(bc, i) = len_at(bc, j) /\ i <= j)

\* iteration_order with the last member left out
iteration_order_short(candidates, ord) ==
    SubSeq(SelectSeq(ord, LAMBDA c : c \in candidates), 1,
           Cardinality(candidates) - 1)

\* iteration_order yielding the members in the opposite order
iteration_order_reversed(candidates, ord) ==
    LET seq == SelectSeq(ord, LAMBDA c : c \in candidates)
    IN  [k \in 1 .. Len(seq) |-> seq[Len(seq) + 1 - k]]

\* "for candidate in candidates": the order in which iterating a set of
\* one-character strings yields its members.  The language leaves the
\* order open; the interpreter derives it from the string hashes, which it
\* randomizes per process.  ord ranks the nine symbols for the running
\* call of solve, and every set is iterated by that ranking.
iteration_order(candidates, ord) == SelectSeq(ord, LAMBDA c : c \in candidates)

\* the assertions of solve_through_search and make_board_from_candidates
\* fail when a space has no candidate
has_no_candidates(bc) == \E x \in Coord : \E y \in Coord : bc[x][y] = {}

\* The activation of solve_through_search(bc) when it reaches its loop:
\* the candidate sets it was given, the space it checks and the
\* candidates its loop has not tried yet.
new_frame(bc, ord) ==
    CHOOSE frame \in
        {[bc |-> bc, x |-> i % BOARD_LENGTH, y |-> i \div BOARD_LENGTH,
          todo |-> iteration_order(bc[i % BOARD_LENGTH][i \div BOARD_LENGTH],
                                   ord)] :
            i \in {space_to_check(bc)}} : TRUE

\* one pass of the loop body up to the recursive call: the copy of the
\* candidate sets with the candidate set at x y and removed from the peers
try_candidate(frame, candidate) ==
    remove_from_peers([frame.bc EXCEPT ![frame.x][frame.y] = {candidate}],
                      candidate, frame.x, frame.y)

\* the activation after a pass that worked on the sets of the activation
\* itself (no deepcopy)
after_pass_shared(frame, st) == [frame EXCEPT !.todo = Tail(@), !.bc = st.bc]

\* The activation after a pass of its loop that ended in the candidate
\* sets st: board_candidates_copy = copy.deepcopy(board_candidates) gave
\* the pass sets of its own, so the activation keeps its candidate sets
\* and has one candidate less to try.
after_pass(frame, st) == [frame EXCEPT !.todo = Tail(@)]

----------------------------------------------------------------------------
(* Inputs                                                                  *)

EMPTY_SYMBOLS == [i \in 1 .. FULL_BOARD_SIZE |-> EMPTY_SPACE]

B1_SYMBOLS ==
    <<"5","3",".",".","7",".",".",".",".">>
    \o <<"6",".",".","1","9","5",".",".",".">>
    \o <<".","9","8",".",".",".",".","6",".">>
    \o <<"8",".",".",".","6",".",".",".","3">>
    \o <<"4",".",".","8",".","3",".",".","1">>
    \o <<"7",".",".",".","2",".",".",".","6">>
    \o <<".","6",".",".",".",".","2","8",".">>
    \o <<".",".",".","4","1","9",".",".","5">>
    \o <<".",".",".",".","8",".",".","7","9">>

B2_SYMBOLS ==
    <<"5","3","4","6","7","8","9","1","2">>
    \o <<"6","7","2","1","9","5","3","4","8">>
    \o <<"1","9","8","3","4","2","5","6","7">>
    \o <<"8","5","9","7","6","1","4","2","3">>
    \o <<"4","2","6","8","5","3","7","9","1">>
    \o <<"7","1","3","9","2","4","8","5","6">>
    \o <<"9","6","1","5","3","7","2","8","4">>
    \o <<"2","8","7","4","1","9","6","3","5">>
    \o <<"3","4","5","2","8","6","1","7","9">>

\* B2_SYMBOLS without the 6 and 7 at the corners of the rectangle of
\* columns 3, 4 and rows 0, 3: both ways of putting them back are valid
TWO_SYMBOLS ==
    [i \in 1 .. FULL_BOARD_SIZE |->
        IF i \in {4, 5, 31, 32} THEN EMPTY_SPACE ELSE B2_SYMBOLS[i]]

\* the symbols strings boards are constructed from
Seeds == {EMPTY_SYMBOLS, B1_SYMBOLS, B2_SYMBOLS, TWO_SYMBOLS}

\* the symbols strings assigned to board.symbols
AssignedSymbols == {B1_SYMBOLS, TWO_SYMBOLS}

\* the spaces and symbols of single assignments board[x, y] = symbol
EditCells == {<<0, 4>>, <<7, 0>>}

EditSymbols == {EMPTY_SPACE, "9"}

\* rankings of the symbols: list(set('123456789')) as observed under
\* PYTHONHASHSEED=0 and under PYTHONHASHSEED=4
HashOrders ==
    {<<"7", "9", "2", "8", "4", "5", "6", "1", "3">>,
     <<"1", "8", "4", "6", "7", "5", "2", "9", "3">>}

\* a full board with a repeat in every row, column and box
ONES_SYMBOLS == [i \in 1 .. FULL_BOARD_SIZE |-> "1"]

\* a 1 at (0, 0) and a 1 at (1, 1): a repeat in a box, in no row or column
BOX_SYMBOLS ==
    [i \in 1 .. FULL_BOARD_SIZE |-> IF i \in {1, 11} THEN "1" ELSE EMPTY_SPACE]

\* strings the symbols setter rejects: one symbol short, one too long, a
\* letter, a zero
SHORT_SYMBOLS == [i \in 1 .. (FULL_BOARD_SIZE - 1) |-> "1"]

LONG_SYMBOLS == [i \in 1 .. (FULL_BOARD_SIZE + 1) |-> EMPTY_SPACE]

LETTER_SYMBOLS ==
    [i \in 1 .. FULL_BOARD_SIZE |-> IF i = 3 THEN "A" ELSE EMPTY_SPACE]

ZERO_SYMBOLS ==
    [i \in 1 .. FULL_BOARD_SIZE |-> IF i = 81 THEN "0" ELSE "1"]

\* the symbols strings the boards without a solver are constructed from
BoardSeeds == {EMPTY_SYMBOLS, B1_SYMBOLS, B2_SYMBOLS, ONES_SYMBOLS, BOX_SYMBOLS}

\* the values assigned to their symbols
BoardStrings ==
    {B1_SYMBOLS, ONES_SYMBOLS, BOX_SYMBOLS, SHORT_SYMBOLS, LONG_SYMBOLS,
     LETTER_SYMBOLS, ZERO_SYMBOLS, << >>}

\* the keys and values of their single assignments; (9, 0), (0, -1), 81
\* and -1 are out of range, "A", "0", "12" and "" are no symbols
BoardCells == {<<0, 4>>, <<7, 0>>, <<1, 1>>, <<9, 0>>, <<0, -1>>}

BoardIndexes == {0, 80, 81, -1}

BoardSymbols == {EMPTY_SPACE, "1", "9", "A", "0", "12", ""}

\* B1_SYMBOLS with a 9 at (0, 4): no repeat and no completion, which the
\* search finds out
NINE_SYMBOLS ==
    [i \in 1 .. FULL_BOARD_SIZE |-> IF i = 37 THEN "9" ELSE B1_SYMBOLS[i]]

\* B1_SYMBOLS with a 9 at (7, 0): no repeat and no completion, which the
\* propagation of the givens finds out
STUCK_SYMBOLS ==
    [i \in 1 .. FULL_BOARD_SIZE |-> IF i = 8 THEN "9" ELSE B1_SYMBOLS[i]]

\* B2_SYMBOLS with a 9 at (7, 0): two 9s in row 0
REPEAT_SYMBOLS ==
    [i \in 1 .. FULL_BOARD_SIZE |-> IF i = 8 THEN "9" ELSE B2_SYMBOLS[i]]

\* TWO_SYMBOLS without rows 1 and 2 and without the 9 at (8, 8): the
\* propagation settles (8, 8) and nothing else
LOOSE_SYMBOLS ==
    [i \in 1 .. FULL_BOARD_SIZE |->
        IF (i - 1) \div BOARD_LENGTH \in {1, 2} \/ i = FULL_BOARD_SIZE
        THEN EMPTY_SPACE
        ELSE TWO_SYMBOLS[i]]

\* the symbols strings of the boards whose solving is followed step by
\* step
StepSeeds ==
    {B1_SYMBOLS, B2_SYMBOLS, TWO_SYMBOLS, NINE_SYMBOLS, STUCK_SYMBOLS,
     REPEAT_SYMBOLS, LOOSE_SYMBOLS}

\* the bools assigned to board.strict
BoolValues == {"True", "False"}

\* the values assigned to board.strict: the bools, an int and None
StrictValues == BoolValues \cup {"1", "None"}

\* the number of assignments to a board after its construction
MaxEdits == 1

\* the number of times a board is solved
MaxSolves == 2

----------------------------------------------------------------------------
(* State                                                                   *)

VARIABLES
    board,      \* SudokuBoard._board
    strict,     \* SudokuBoard._strict
    pc,         \* "idle", "givens" inside remove_givens_from_board_candidates
                \* or "search" inside solve_through_search
    stack,      \* the activations of solve_through_search, innermost last
    order,      \* the set iteration order of the running solve
    op,         \* the latest operation on the board
    outcome,    \* its result: "none" while it runs, "ok", "True", "False"
                \* or the name of the exception it raised
    pre,        \* the board and the strict flag when it started
    run,        \* the latest completed solve
    last,       \* the completed solve before that
    nedits,     \* operations on the board other than solve and copy so far
    nsolves,    \* calls of solve so far
    arg,        \* the key and the value the latest operation was given
    other,      \* the board a copy operation returned
    prop        \* the propagation of the givens while it is followed step
                \* by step, and what the latest one came to

vars ==
    <<board, strict, pc, stack, order, op, outcome, pre, run, last,
      nedits, nsolves, arg, other, prop>>

NoRun == [givens |-> clear_board, outcome |-> "none",
          symbols |-> EMPTY_SYMBOLS, order |-> Ascending]

\* an operation without arguments: key is the key of a cell assignment,
\* value its symbol or the value given to strict, symbols the string given
\* to symbols
NoArg == [key |-> << >>, value |-> "", symbols |-> << >>]

\* no copy has been made
NoCopy == [made |-> FALSE, same |-> FALSE, board |-> clear_board,
           strict |-> FALSE]

\* remove_givens_from_board_candidates(board_candidates) as it is called:
\* no space visited, no call of remove_from_peers running
start_of_givens(bc) == [raised |-> FALSE, bc |-> bc, g |-> 0, calls |-> << >>]

\* no propagation is followed and none has been: impl is the module of
\* the BasicSolver at work, pass counts its calls of
\* remove_givens_from_board_candidates on one board_candidates, st is the
\* propagation state, first the candidate sets the first call returned,
\* before what the latest propagation of the givens came to
NoProp ==
    [impl |-> "none", pass |-> 0, st |-> start_of_givens(initial_candidates),
     first |-> initial_candidates,
     before |-> [impl |-> "none", raised |-> FALSE,
                 bc |-> initial_candidates]]

\* SudokuBoard(symbols=seed, strict=s) for a seed of seeds; no board
\* exists when the constructor raises
InitFrom(seeds) ==
    /\ \E seed \in seeds : \E s \in BOOLEAN :
          LET r == symbols_set(clear_board, s, seed)
          IN  /\ ~ r.raised
              /\ board = r.board
              /\ strict = s
    /\ pc = "idle"
    /\ stack = << >>
    /\ order = Ascending
    /\ op = "init"
    /\ outcome = "ok"
    /\ pre = [board |-> clear_board, strict |-> strict]
    /\ run = NoRun
    /\ last = NoRun
    /\ nedits = 0
    /\ nsolves = 0
    /\ arg = NoArg
    /\ other = NoCopy
    /\ prop = NoProp

Init == InitFrom(Seeds)

----------------------------------------------------------------------------
(* solve                                                                   *)

\* solve() raises exc
SolveRaises(exc, ord, givens) ==
    /\ pc' = "idle"
    /\ stack' = << >>
    /\ order' = Ascending
    /\ outcome' = exc
    /\ run' = [givens |-> givens, outcome |-> exc,
               symbols |-> symbols_get(board), order |-> ord]
    /\ last' = run
    /\ UNCHANGED <<board, strict>>

\* SolveFails leaving an emptied board behind
SolveFails_clears(ord, givens) ==
    /\ pc' = "idle"
    /\ stack' = << >>
    /\ order' = Ascending
    /\ outcome' = "False"
    /\ board' = clear_board
    /\ run' = [givens |-> givens, outcome |-> "False",
               symbols |-> symbols_get(clear_board), order |-> ord]
    /\ last' = run
    /\ UNCHANGED strict

\* solve_through_search returned None: solve() returns False
SolveFails(ord, givens) ==
    /\ pc' = "idle"
    /\ stack' = << >>
    /\ order' = Ascending
    /\ outcome' = "False"
    /\ run' = [givens |-> givens, outcome |-> "False",
               symbols |-> symbols_get(board), order |-> ord]
    /\ last' = run
    /\ UNCHANGED <<board, strict>>

\* SolveSucceeds returning True without assigning the solution
SolveSucceeds_unassigned(solution_symbols, ord, givens) ==
    /\ pc' = "idle"
    /\ stack' = << >>
    /\ order' = Ascending
    /\ outcome' = "True"
    /\ run' = [givens |-> givens, outcome |-> "True",
               symbols |-> symbols_get(board), order |-> ord]
    /\ last' = run
    /\ UNCHANGED <<board, strict>>

\* solve_through_search returned solution_symbols:
\* self.board.symbols = solution_symbols; return True
SolveSucceeds(solution_symbols, ord, givens) ==
    \E r \in {symbols_set(board, strict, solution_symbols)} :
    \E result \in {IF r.raised THEN "SudokuBoardException" ELSE "True"} :
        /\ pc' = "idle"
        /\ stack' = << >>
        /\ order' = Ascending
        /\ board' = r.board
        /\ outcome' = result
        /\ run' = [givens |-> givens, outcome |-> result,
                   symbols |-> symbols_get(r.board), order |-> ord]
        /\ last' = run
        /\ UNCHANGED strict

\* solve_through_search without the return for candidate sets that are
\* all down to one candidate: order_of_spaces_to_check[0] of an empty list
Search_no_early_return(bc, stk, ord, givens) ==
    IF has_no_candidates(bc)
    THEN SolveRaises("AssertionError", ord, givens)
    ELSE IF order_of_spaces_to_check(bc) = {}
    THEN SolveRaises("IndexError", ord, givens)
    ELSE /\ pc' = "search"
         /\ stack' = Append(stk, new_frame(bc, ord))
         /\ order' = ord
         /\ outcome' = "none"
         /\ UNCHANGED <<board, strict, run, last>>

\* solve_through_search(bc) is called with the activations in stk below it
Search(bc, stk, ord, givens) ==
    IF has_no_candidates(bc)
    THEN SolveRaises("AssertionError", ord, givens)
    ELSE IF order_of_spaces_to_check(bc) = {}
    THEN SolveSucceeds(symbols_get(make_board_from_candidates(bc)), ord, givens)
    ELSE /\ pc' = "search"
         /\ stack' = Append(stk, new_frame(bc, ord))
         /\ order' = ord
         /\ outcome' = "none"
         /\ UNCHANGED <<board, strict, run, last>>

\* solve(), up to the first pass of the search loop.  The calls of solve in
\* a behaviour stand for calls made in any interpreter processes: each
\* draws the set iteration order of its process.
SolveStart ==
    /\ pc = "idle"
    /\ nsolves < MaxSolves
    /\ nsolves' = nsolves + 1
    /\ op' = "solve"
    /\ pre' = [board |-> board, strict |-> strict]
    /\ arg' = NoArg
    /\ UNCHANGED <<nedits, other>>
    /\ \E st \in {remove_givens_from_board_candidates(board,
                                                       initial_candidates)} :
          /\ prop' = [NoProp EXCEPT
                         !.before = [impl |-> "solvers", raised |-> st.raised,
                                     bc |-> st.bc]]
          /\ \E ord \in HashOrders :
                IF st.raised
                THEN SolveRaises("SudokuBoardException", ord, board)
                ELSE Search(st.bc, << >>, ord, board)

\* the pass ends at a continue statement: the loop goes on with the next
\* candidate
Continue(stk) ==
    /\ stack' = stk
    /\ UNCHANGED <<board, strict, pc, order, outcome, run, last>>

\* the call of remove_from_peers outside any try statement
ExceptContinue_unhandled(stk) ==
    SolveRaises("SudokuBoardException", order, pre.board)

\* except SudokuBoardException: continue
ExceptContinue(stk) == Continue(stk)

\* one pass of the loop of the innermost solve_through_search
TryCandidate ==
    /\ pc = "search"
    /\ stack[Len(stack)].todo # << >>
    /\ LET n == Len(stack)
           frame == stack[n]
           candidate == Head(frame.todo)
       IN  \E st \in {try_candidate(frame, candidate)} :
           \E stk \in {[stack EXCEPT ![n] = after_pass(frame, st)]} :
           IF st.raised
           THEN ExceptContinue(stk)
           ELSE IF has_no_candidates(st.bc)
           THEN SolveRaises("AssertionError", order, pre.board)
           ELSE \E b \in {make_board_from_candidates(st.bc)} :
                IF ~ is_valid_board(b)
                THEN Continue(stk)
                ELSE IF is_full(b)
                THEN \* every activation returns the result it is handed
                     SolveSucceeds(symbols_get(b), order, pre.board)
                ELSE Search(st.bc, stk, order, pre.board)
    /\ UNCHANGED <<op, pre, nedits, nsolves, arg, other, prop>>

\* the loop of the innermost solve_through_search is over: return None
Exhausted ==
    /\ pc = "search"
    /\ stack[Len(stack)].todo = << >>
    /\ IF Len(stack) = 1
       THEN SolveFails(order, pre.board)
       ELSE /\ stack' = SubSeq(stack, 1, Len(stack) - 1)
            /\ UNCHANGED <<board, strict, pc, order, outcome, run, last>>
    /\ UNCHANGED <<op, pre, nedits, nsolves, arg, other, prop>>

----------------------------------------------------------------------------
(* Operations on the board                                                 *)

\* board[x, y] = value without the check of a strict board
setitem_unchecked(b, isStrict, x, y, value) ==
    IF ~ is_valid_symbol(value)
    THEN [raised |-> TRUE, board |-> b]
    ELSE IF x < 0 \/ x >= BOARD_LENGTH \/ y < 0 \/ y >= BOARD_LENGTH
    THEN [raised |-> TRUE, board |-> b]
    ELSE [raised |-> FALSE, board |-> [b EXCEPT ![x][y] = value]]

\* board[x, y] = value raising without putting the old value back
setitem_no_restore(b, isStrict, x, y, value) ==
    IF ~ is_valid_symbol(value)
    THEN [raised |-> TRUE, board |-> b]
    ELSE IF x < 0 \/ x >= BOARD_LENGTH \/ y < 0 \/ y >= BOARD_LENGTH
    THEN [raised |-> TRUE, board |-> b]
    ELSE IF isStrict /\ ~ is_valid_board([b EXCEPT ![x][y] = value])
    THEN [raised |-> TRUE, board |-> [b EXCEPT ![x][y] = value]]
    ELSE [raised |-> FALSE, board |-> [b EXCEPT ![x][y] = value]]

\* board[x, y] = value, for a value that is a string (str(value) is value)
setitem(b, isStrict, x, y, value) ==
    IF ~ is_valid_symbol(value)
    THEN [raised |-> TRUE, board |-> b]
    ELSE IF x < 0 \/ x >= BOARD_LENGTH \/ y < 0 \/ y >= BOARD_LENGTH
    THEN [raised |-> TRUE, board |-> b]
    ELSE IF isStrict /\ ~ is_valid_board([b EXCEPT ![x][y] = value])
    THEN [raised |-> TRUE, board |-> b]
    ELSE [raised |-> FALSE, board |-> [b EXCEPT ![x][y] = value]]

\* board[key] = value for a single integer key
setitem_index(b, isStrict, key, value) ==
    IF ~ is_valid_symbol(value)
    THEN [raised |-> TRUE, board |-> b]
    ELSE IF key < 0 \/ key >= FULL_BOARD_SIZE
    THEN [raised |-> TRUE, board |-> b]
    ELSE setitem(b, isStrict, key % BOARD_LENGTH, key \div BOARD_LENGTH, value)

\* isinstance(value, bool), for the values of StrictValues
is_bool(value) == value \in BoolValues

\* board.strict = value without the check of the board
set_strict_unchecked(b, isStrict, value) ==
    IF ~ is_bool(value)
    THEN [raised |-> TRUE, strict |-> isStrict]
    ELSE [raised |-> FALSE, strict |-> (value = "True")]

\* board.strict = value: whether it raised, and the flag afterwards
set_strict(b, isStrict, value) ==
    IF ~ is_bool(value)
    THEN [raised |-> TRUE, strict |-> isStrict]
    ELSE IF value = "True" /\ ~ is_valid_board(b)
    THEN [raised |-> TRUE, strict |-> isStrict]
    ELSE [raised |-> FALSE, strict |-> (value = "True")]

\* __copy__ returning self
copy_board_self(b, isStrict) ==
    [raised |-> FALSE, same |-> TRUE, board |-> b, strict |-> isStrict]

\* __copy__: SudokuBoard(symbols=self.symbols, strict=self._strict), a new
\* object with lists of its own
copy_board(b, isStrict) ==
    LET r == symbols_set(clear_board, isStrict, symbols_get(b))
    IN  [raised |-> r.raised, same |-> FALSE, board |-> r.board,
         strict |-> isStrict]

\* the board and the strict flag of the copy
copy_view ==
    IF other.same THEN [board |-> board, strict |-> strict]
    ELSE [board |-> other.board, strict |-> other.strict]

\* an operation on the board other than solve ends
Done(name, a, r) ==
    /\ nedits' = nedits + 1
    /\ op' = name
    /\ arg' = a
    /\ pre' = [board |-> board, strict |-> strict]
    /\ board' = r.board
    /\ outcome' = IF r.raised THEN "SudokuBoardException" ELSE "ok"
    /\ UNCHANGED <<pc, stack, order, run, last, nsolves, other, prop>>

\* board[c] = value for a pair c of cells and a value of symbols
SetItemOf(cells, symbols) ==
    /\ pc = "idle"
    /\ nedits < MaxEdits
    /\ \E c \in cells : \E value \in symbols :
          Done("setitem", [key |-> c, value |-> value,
                           symbols |-> << >>],
               setitem(board, strict, c[1], c[2], value))
    /\ UNCHANGED strict

SetItem == SetItemOf(EditCells, EditSymbols)

\* board.symbols = value for a value of values
SetSymbolsOf(values) ==
    /\ pc = "idle"
    /\ nedits < MaxEdits
    /\ \E value \in values :
          Done("symbols", [key |-> << >>, value |-> "",
                           symbols |-> value],
               symbols_set(board, strict, value))
    /\ UNCHANGED strict

SetSymbols == SetSymbolsOf(AssignedSymbols)

\* board.clear_board()
ClearBoard ==
    /\ pc = "idle"
    /\ nedits < MaxEdits
    /\ Done("clear_board", NoArg, [raised |-> FALSE, board |-> clear_board])
    /\ UNCHANGED strict

\* board.strict = value for a value of values
SetStrictOf(values) ==
    /\ pc = "idle"
    /\ nedits < MaxEdits
    /\ \E value \in values :
          \E r \in {set_strict(board, strict, value)} :
              /\ Done("strict", [key |-> << >>, value |-> value,
                                symbols |-> << >>],
                      [raised |-> r.raised, board |-> board])
              /\ strict' = r.strict

SetStrict == SetStrictOf(BoolValues)

Next ==
    \/ SolveStart
    \/ TryCandidate
    \/ Exhausted
    \/ SetItem
    \/ SetSymbols
    \/ SetStrict

Spec == Init /\ [][Next]_vars

\* the loop of the innermost solve_through_search has a candidate to try:
\* ENABLED <<TryCandidate>>_vars, every branch of a pass changes the stack
\* or ends solve
candidates_left == pc = "search" /\ stack[Len(stack)].todo # << >>

\* the loop of the innermost solve_through_search has come to its end:
\* ENABLED <<Exhausted>>_vars
loop_over == pc = "search" /\ stack[Len(stack)].todo = << >>

\* the interpreter runs the loop of solve_through_search on: a pass that
\* can be taken is taken.  This is WF_vars(TryCandidate) /\ WF_vars(Exhausted)
\* with ENABLED written out as the conditions of the two actions.
FairSpec ==
    /\ Spec
    /\ ([]<>(~ candidates_left) \/ []<><<TryCandidate>>_vars)
    /\ ([]<>(~ loop_over) \/ []<><<Exhausted>>_vars)

----------------------------------------------------------------------------
(* The board on its own: every operation of SudokuBoard, no solver         *)

BoardInit == InitFrom(BoardSeeds)

BoardSetItem == SetItemOf(BoardCells, BoardSymbols)

\* board[key] = value for a single integer key
BoardSetIndex ==
    /\ pc = "idle"
    /\ nedits < MaxEdits
    /\ \E key \in BoardIndexes : \E value \in BoardSymbols :
          Done("setitem", [key |-> <<key>>, value |-> value,
                           symbols |-> << >>],
               setitem_index(board, strict, key, value))
    /\ UNCHANGED strict

BoardSetSymbols == SetSymbolsOf(BoardStrings)

BoardSetStrict == SetStrictOf(StrictValues)

\* a method that returns a bool and changes nothing has returned
Answer(name, value) ==
    /\ pc = "idle"
    /\ nedits < MaxEdits
    /\ nedits' = nedits + 1
    /\ op' = name
    /\ arg' = NoArg
    /\ pre' = [board |-> board, strict |-> strict]
    /\ outcome' = IF value THEN "True" ELSE "False"
    /\ UNCHANGED <<board, strict, pc, stack, order, run, last, nsolves, other,
                   prop>>

IsValidBoard == Answer("is_valid_board", is_valid_board(board))

IsFull == Answer("is_full", is_full(board))

IsSolved == Answer("is_solved", is_solved(board))

\* board.copy(), copy.copy(board) or copy.deepcopy(board): each returns
\* what __copy__ returns.  The model keeps one copy.
Copy ==
    /\ pc = "idle"
    /\ ~ other.made
    /\ \E how \in {"copy", "copy.copy", "copy.deepcopy"} :
          \E r \in {copy_board(board, strict)} :
              /\ op' = how
              /\ outcome' = IF r.raised THEN "SudokuBoardException" ELSE "ok"
              /\ other' = IF r.raised THEN NoCopy
                          ELSE [made |-> TRUE, same |-> r.same,
                                board |-> r.board, strict |-> r.strict]
    /\ arg' = NoArg
    /\ pre' = [board |-> board, strict |-> strict]
    /\ UNCHANGED <<board, strict, pc, stack, order, run, last, nedits, nsolves,
                   prop>>

\* other[c] = value on the copy
SetItemOnCopy ==
    /\ pc = "idle"
    /\ other.made
    /\ nedits < MaxEdits
    /\ \E c \in BoardCells : \E value \in BoardSymbols :
          \E r \in {setitem(copy_view.board, copy_view.strict,
                            c[1], c[2], value)} :
              /\ arg' = [key |-> c, value |-> value,
                         symbols |-> << >>]
              /\ outcome' = IF r.raised THEN "SudokuBoardException" ELSE "ok"
              /\ IF other.same
                 THEN board' = r.board /\ UNCHANGED other
                 ELSE other' = [other EXCEPT !.board = r.board]
                      /\ UNCHANGED board
    /\ nedits' = nedits + 1
    /\ op' = "setitem on the copy"
    /\ pre' = [board |-> board, strict |-> strict]
    /\ UNCHANGED <<strict, pc, stack, order, run, last, nsolves, prop>>

BoardNext ==
    \/ BoardSetItem
    \/ BoardSetIndex
    \/ BoardSetSymbols
    \/ ClearBoard
    \/ BoardSetStrict
    \/ IsValidBoard
    \/ IsFull
    \/ IsSolved
    \/ Copy
    \/ SetItemOnCopy

BoardSpec == BoardInit /\ [][BoardNext]_vars

----------------------------------------------------------------------------
(* solve followed step by step, by the BasicSolver of either module        *)

StepInit == InitFrom(StepSeeds)

\* BasicSolver(board).solve() starts: first the class of
\* basicsudoku/solvers.py, then the class of basicsudoku/__init__.py on a
\* board constructed from the same symbols.
Begin ==
    /\ pc = "idle"
    /\ prop.pass = 0
    /\ prop.before.impl \in {"none", "solvers"}
    /\ \E givens \in {IF prop.before.impl = "none" THEN board ELSE pre.board} :
          /\ board' = givens
          /\ pre' = [board |-> givens, strict |-> strict]
    /\ prop' = [prop EXCEPT
                   !.impl = IF prop.before.impl = "none" THEN "solvers"
                            ELSE "__init__",
                   !.pass = 1,
                   !.st = start_of_givens(initial_candidates),
                   !.first = initial_candidates]
    /\ pc' = "givens"
    /\ op' = "solve"
    /\ outcome' = "none"
    /\ arg' = NoArg
    /\ nsolves' = nsolves + 1
    /\ UNCHANGED <<strict, stack, order, run, last, nedits, other>>

\* one step of remove_givens_from_board_candidates and the calls below it
GivensStep ==
    /\ pc = "givens"
    /\ ~ returned(prop.st)
    /\ prop' = [prop EXCEPT !.st = propagation_step_of(prop.impl, @, board)]
    /\ UNCHANGED <<board, strict, pc, stack, order, op, outcome, pre, run,
                   last, nedits, nsolves, arg, other>>

\* remove_givens_from_board_candidates is called once more on the
\* board_candidates its first call returned
PropagateAgain ==
    /\ pc = "givens"
    /\ returned(prop.st)
    /\ ~ prop.st.raised
    /\ prop.pass = 1
    /\ prop' = [prop EXCEPT !.pass = 2, !.first = prop.st.bc,
                            !.st = start_of_givens(prop.st.bc)]
    /\ UNCHANGED <<board, strict, pc, stack, order, op, outcome, pre, run,
                   last, nedits, nsolves, arg, other>>

\* remove_givens_from_board_candidates has returned or raised: solve goes
\* on with solve_through_search, or the exception leaves solve
GivensDone ==
    /\ pc = "givens"
    /\ returned(prop.st)
    /\ prop' = [NoProp EXCEPT
                   !.before = [impl |-> prop.impl, raised |-> prop.st.raised,
                               bc |-> prop.st.bc]]
    /\ \E ord \in HashOrders :
          IF prop.st.raised
          THEN SolveRaises("SudokuBoardException", ord, board)
          ELSE Search(prop.st.bc, << >>, ord, board)
    /\ UNCHANGED <<op, pre, nedits, nsolves, arg, other>>

StepNext ==
    \/ Begin
    \/ GivensStep
    \/ PropagateAgain
    \/ GivensDone
    \/ TryCandidate
    \/ Exhausted

StepSpec == StepInit /\ [][StepNext]_vars

----------------------------------------------------------------------------
(* Reference notions the properties are stated with                        *)

\* two different spaces share a row, a column or a 3x3 box
Peer(c, d) ==
    /\ c # d
    /\ \/ c[1] = d[1]
       \/ c[2] = d[2]
       \/ (c[1] \div 3 = d[1] \div 3 /\ c[2] \div 3 = d[2] \div 3)

\* the peers of every space, as a table written out once
PeersOf ==
    [c \in Cells |-> UNION {{d} : d \in {e \in Cells : Peer(c, e)}}] @@ << >>

\* the pairs of spaces that share a row, a column or a box
PeerPairs == UNION {{<<c, d>> : d \in PeersOf[c]} : c \in Cells}

\* no row, column or box holds a repeated non-empty symbol
NoRepeat(b) ==
    \A p \in PeerPairs :
        b[p[1][1]][p[1][2]] # EMPTY_SPACE
            => b[p[1][1]][p[1][2]] # b[p[2][1]][p[2][2]]

Full(b) == \A c \in Cells : b[c[1]][c[2]] # EMPTY_SPACE

\* b keeps every non-empty symbol of g
Extends(b, g) ==
    \A c \in Cells : g[c[1]][c[2]] # EMPTY_SPACE => b[c[1]][c[2]] = g[c[1]][c[2]]

\* two spaces of one row hold the same non-empty symbol
RowRepeat(b) ==
    \E y \in Coord : \E x1 \in Coord : \E x2 \in Coord :
        x1 # x2 /\ b[x1][y] # EMPTY_SPACE /\ b[x1][y] = b[x2][y]

\* the symbols no peer of the space holds
Options(b, c) == AllSymbols \ {b[d[1]][d[2]] : d \in PeersOf[c]}

EmptyCells(b) == {c \in Cells : b[c[1]][c[2]] = EMPTY_SPACE}

\* every empty space with a single option takes it
Forced(b) ==
    [x \in Coord |-> [y \in Coord |->
        IF b[x][y] = EMPTY_SPACE /\ Cardinality(Options(b, <<x, y>>)) = 1
        THEN CHOOSE v \in Options(b, <<x, y>>) : TRUE
        ELSE b[x][y]]]

\* The full boards without repeats that extend b, by exhaustive search:
\* forced spaces are filled, then an empty space with the fewest options
\* takes each of its options in turn.
RECURSIVE Completions(_)

Completions(b) ==
    IF ~ NoRepeat(b) THEN {}
    ELSE IF EmptyCells(b) = {} THEN {b}
    ELSE UNION {
        IF forced # b THEN Completions(forced)
        ELSE UNION {
            UNION {Completions(next) :
                      next \in {[b EXCEPT ![c[1]][c[2]] = v] : v \in opts[c]}} :
            c \in {CHOOSE e \in DOMAIN opts :
                      \A f \in DOMAIN opts :
                          Cardinality(opts[e]) <= Cardinality(opts[f])}} :
        forced \in {Forced(b)},
        opts \in {[e \in EmptyCells(b) |-> Options(b, e)]}}

----------------------------------------------------------------------------
(* Properties                                                              *)

\* a call of solve has returned or raised
SolveDone == pc = "idle" /\ op = "solve"

\* the board after solve is a full board without repeats that extends the
\* givens, or the exhaustive search finds one
GivensHaveCompletion ==
    \/ Full(board) /\ NoRepeat(board) /\ Extends(board, pre.board)
    \/ Completions(pre.board) # {}

\* C1: whenever solve returns True, the board is full and no row, column
\* or box of it holds a repeated symbol.
C1_SolutionFullAndValid ==
    (SolveDone /\ outcome = "True") => (Full(board) /\ NoRepeat(board))

\* solve returned True on a board that needed the search
C1_Witness ==
    /\ SolveDone /\ outcome = "True"
    /\ pre.board = clear_board
    /\ Full(board) /\ NoRepeat(board)

\* C2: on every board without repeats whose givens have a full completion
\* without repeats, solve returns True.
C2_Completeness ==
    (SolveDone /\ outcome # "True" /\ NoRepeat(pre.board))
        => Completions(pre.board) = {}

\* solve returned True on B1 with the 4 at (0, 4) removed, which the
\* propagation alone does not settle
C2_Witness ==
    /\ SolveDone /\ outcome = "True"
    /\ pre.board = [place_symbols(B1_SYMBOLS) EXCEPT ![0][4] = EMPTY_SPACE]
    /\ NoRepeat(pre.board)
    /\ Extends(board, pre.board)

\* C3: whenever solve returns True, every space that held a symbol before
\* the call holds the same symbol afterwards.
C3_GivensPreserved ==
    (SolveDone /\ outcome = "True") => Extends(board, pre.board)

\* solve returned True and filled the empty spaces of a board with givens
C3_Witness ==
    /\ SolveDone /\ outcome = "True"
    /\ pre.board = place_symbols(B1_SYMBOLS)
    /\ board # pre.board

\* C4: on every board without repeats that has no full completion without
\* repeats, solve returns False.
C4_ExhaustionReturnsFalse ==
    (SolveDone /\ NoRepeat(pre.board) /\ ~ GivensHaveCompletion)
        => outcome = "False"

undetermined(bc) ==
    Cardinality({c \in Cells : Cardinality(bc[c[1]][c[2]]) # 1})

\* the place of symbol c in the order ord
place(ord, c) == CHOOSE k \in 1 .. Len(ord) : ord[k] = c

\* the members of seq come in the order ord, none of them twice
Follows(seq, ord) ==
    \A j \in 1 .. Len(seq) : \A k \in 1 .. Len(seq) :
        j < k => place(ord, seq[j]) < place(ord, seq[k])

\* seq is the end of the sequence whole
IsSuffix(seq, whole) ==
    /\ Len(seq) <= Len(whole)
    /\ seq = SubSeq(whole, Len(whole) - Len(seq) + 1, Len(whole))

\* the candidates of the space of the frame listed in the order ord
InOrder(frame, ord) ==
    SelectSeq(ord, LAMBDA c : c \in frame.bc[frame.x][frame.y])

\* C7: solve always terminates: every activation of solve_through_search
\* has strictly fewer spaces with more than one candidate than its caller,
\* the activations are never more than 81 deep, each has at most 9
\* candidates to try, and a search that has started comes to its end.
C7_SearchTerminates ==
    /\ [](/\ Len(stack) <= FULL_BOARD_SIZE
          /\ \A i \in 1 .. Len(stack) :
                /\ Len(stack[i].todo) <= BOARD_LENGTH
                /\ Cardinality(stack[i].bc[stack[i].x][stack[i].y]) <= BOARD_LENGTH
                /\ i > 1 => undetermined(stack[i].bc) < undetermined(stack[i - 1].bc))
    /\ (pc = "search" ~> pc = "idle")

\* the search is ten activations deep
C7_Witness ==
    /\ pc = "search"
    /\ Len(stack) >= 10
    /\ undetermined(stack[10].bc) < undetermined(stack[1].bc)

\* the latest two completed calls of solve had the same givens
SameGivensTwice ==
    /\ run.outcome # "none"
    /\ last.outcome # "none"
    /\ run.givens = last.givens

C10_PropagationOnly ==
    SolveDone
        => \A st \in {prop.before} :
              (~ st.raised /\ undetermined(st.bc) = 0)
                  => /\ outcome = "True"
                     /\ \A c \in Cells : st.bc[c[1]][c[2]] = {board[c[1]][c[2]]}
                     /\ Full(board) /\ NoRepeat(board)
                     /\ Completions(pre.board) = {board}

\* solve returned True on B1, whose givens the propagation alone settles
C10_Witness ==
    /\ SolveDone /\ outcome = "True"
    /\ pre.board = place_symbols(B1_SYMBOLS)
    /\ board = place_symbols(B2_SYMBOLS)
    /\ undetermined(
           remove_givens_from_board_candidates(pre.board,
                                               initial_candidates).bc) = 0

\* the board on which character i of the string s (counted from 0) is at
\* column i mod 9 of row i div 9
Grid(s) ==
    [x \in Coord |-> [y \in Coord |-> s[y * BOARD_LENGTH + x + 1]]]

\* C11: solving the board with the givens B1_SYMBOLS returns True and
\* leaves B2_SYMBOLS on the board.
C11_KnownSolution ==
    (SolveDone /\ pre.board = Grid(B1_SYMBOLS))
        => (outcome = "True" /\ board = Grid(B2_SYMBOLS))

\* solve has returned on the board constructed from B1_SYMBOLS
C11_Witness ==
    /\ SolveDone /\ op = "solve" /\ nedits = 0 /\ nsolves = 1
    /\ pre.board = Grid(B1_SYMBOLS)
    /\ board = Grid(B2_SYMBOLS)

\* the number of candidates of space i (i = y * 9 + x) in bc
Size(bc, i) == Cardinality(bc[i % BOARD_LENGTH][i \div BOARD_LENGTH])

\* C20: every activation of the search branches on a space with more than
\* one candidate that has the fewest candidates of all such spaces, and
\* of the spaces with that few candidates on the one with the smallest
\* index y * 9 + x.
C20_FewestCandidatesFirst ==
    \A k \in 1 .. Len(stack) :
        LET bc == stack[k].bc
            i == stack[k].y * BOARD_LENGTH + stack[k].x
        IN  /\ Size(bc, i) > 1
            /\ \A j \in 0 .. (FULL_BOARD_SIZE - 1) :
                   Size(bc, j) > 1
                       => \/ Size(bc, i) < Size(bc, j)
                          \/ (Size(bc, i) = Size(bc, j) /\ i <= j)

\* an activation branches on a space that is not the first space with
\* more than one candidate: an earlier one has more candidates
C20_Witness ==
    /\ pc = "search"
    /\ \E k \in 1 .. Len(stack) :
          \E j \in 0 .. (FULL_BOARD_SIZE - 1) :
              /\ j < stack[k].y * BOARD_LENGTH + stack[k].x
              /\ Size(stack[k].bc, j)
                     > Size(stack[k].bc,
                            stack[k].y * BOARD_LENGTH + stack[k].x)

\* a symbol of the board: "." or one of "1" .. "9"
ValidSymbol(v) == v \in (AllSymbols \cup {EMPTY_SPACE})

\* the key names a space of the board: a pair of coordinates or an index
InRange(key) ==
    IF Len(key) = 2 THEN key[1] \in Coord /\ key[2] \in Coord
    ELSE key[1] \in 0 .. (FULL_BOARD_SIZE - 1)

\* the space the key names
CellOf(key) ==
    IF Len(key) = 2 THEN key
    ELSE <<key[1] % BOARD_LENGTH, key[1] \div BOARD_LENGTH>>

\* putting v at space c of b repeats v in the row, column or box of c
Dup(b, c, v) ==
    v # EMPTY_SPACE /\ \E d \in PeersOf[c] : b[d[1]][d[2]] = v

\* the latest operation assigned a symbol to a space of the board
Assigned == op = "setitem" /\ InRange(arg.key) /\ ValidSymbol(arg.value)

C13_DuplicateAssignment ==
    (Assigned /\ Dup(pre.board, CellOf(arg.key), arg.value))
        => IF pre.strict
           THEN outcome = "SudokuBoardException" /\ board = pre.board
           ELSE /\ outcome = "ok"
                /\ board = [pre.board EXCEPT
                               ![CellOf(arg.key)[1]][CellOf(arg.key)[2]] =
                                   arg.value]

\* a strict board has rejected a symbol that a peer of the space holds,
\* and the space holds what it held
C13_Witness ==
    /\ Assigned /\ pre.strict
    /\ Dup(pre.board, CellOf(arg.key), arg.value)
    /\ pre.board[CellOf(arg.key)[1]][CellOf(arg.key)[2]] # arg.value
    /\ outcome = "SudokuBoardException"
    /\ board = pre.board

\* C14: a symbols assignment whose length is not 81 or that holds a
\* character other than ".", "1" .. "9", and a cell assignment with an
\* index out of range or an invalid symbol, raise SudokuBoardException and
\* leave every space of the board unchanged.
C14_InvalidInputRejected ==
    /\ (op = "symbols"
        /\ (\/ Len(arg.symbols) # FULL_BOARD_SIZE
            \/ \E i \in 1 .. Len(arg.symbols) : ~ ValidSymbol(arg.symbols[i])))
           => (outcome = "SudokuBoardException" /\ board = pre.board
               /\ strict = pre.strict)
    /\ (op = "setitem" /\ (~ InRange(arg.key) \/ ~ ValidSymbol(arg.value)))
           => (outcome = "SudokuBoardException" /\ board = pre.board
               /\ strict = pre.strict)

\* a board that is not empty has rejected a string with a letter after two
\* valid symbols
C14_Witness ==
    /\ op = "symbols"
    /\ arg.symbols = LETTER_SYMBOLS
    /\ pre.board = Grid(B1_SYMBOLS)
    /\ outcome = "SudokuBoardException"
    /\ board = pre.board

\* C15: after board.symbols = s for a string s the board accepts, reading
\* board.symbols gives s, and character i of s (counted from 0) is at
\* column i mod 9 of row i div 9.
C15_SymbolsRoundTrip ==
    (op = "symbols" /\ outcome = "ok")
        => /\ symbols_get(board) = arg.symbols
           /\ \A i \in 0 .. (FULL_BOARD_SIZE - 1) :
                 board[i % BOARD_LENGTH][i \div BOARD_LENGTH] = arg.symbols[i + 1]

\* B1_SYMBOLS has been assigned to a board that held something else
C15_Witness ==
    /\ op = "symbols" /\ outcome = "ok"
    /\ arg.symbols = B1_SYMBOLS
    /\ pre.board # board
    /\ board[1][0] = "3" /\ board[0][1] = "6"

\* C16: is_valid_board returns True exactly when no row, column or box
\* holds the same symbol other than "." twice.
C16_ValidBoard ==
    op = "is_valid_board" => ((outcome = "True") <=> NoRepeat(board))

\* is_valid_board has returned False on a board whose only repeat is in a
\* box
C16_Witness ==
    /\ op = "is_valid_board"
    /\ board = Grid(BOX_SYMBOLS)
    /\ ~ NoRepeat(board)
    /\ outcome = "False"

\* C17: is_solved is True exactly when the board is full and valid, and
\* is_full exactly when no space is empty: the board of 81 ones is full
\* and not solved, a board with an empty space is not solved.
C17_Solved ==
    /\ op = "is_solved"
          => ((outcome = "True") <=> (Full(board) /\ NoRepeat(board)))
    /\ op = "is_full" => ((outcome = "True") <=> Full(board))

\* is_solved has returned False on the board of 81 ones
C17_Witness ==
    /\ op = "is_solved"
    /\ board = Grid(ONES_SYMBOLS)
    /\ Full(board)
    /\ outcome = "False"

\* C18: assigning strict a value that is no bool raises
\* SudokuBoardException; assigning True while the board has a repeat raises
\* it and the flag stays False; assigning True to a board without repeats,
\* or False to any board, succeeds; the spaces are unchanged in every case.
C18_StrictAssignment ==
    op = "strict"
        => /\ board = pre.board
           /\ arg.value \notin {"True", "False"}
                 => (outcome = "SudokuBoardException" /\ strict = pre.strict)
           /\ (arg.value = "True" /\ ~ NoRepeat(pre.board))
                 => (outcome = "SudokuBoardException" /\ ~ strict)
           /\ (arg.value = "True" /\ NoRepeat(pre.board))
                 => (outcome = "ok" /\ strict)
           /\ arg.value = "False" => (outcome = "ok" /\ ~ strict)

\* a board with a repeat has refused to become strict
C18_Witness ==
    /\ op = "strict"
    /\ arg.value = "True"
    /\ ~ NoRepeat(pre.board)
    /\ outcome = "SudokuBoardException"
    /\ ~ strict /\ board = pre.board

\* C19: copy(), copy.copy and copy.deepcopy return a board with the same
\* 81 symbols and the same strict flag, and a later assignment to a space
\* of either board does not change the other.
C19_CopyIndependent ==
    /\ [](op \in {"copy", "copy.copy", "copy.deepcopy"}
             => /\ outcome = "ok" /\ other.made
                /\ symbols_get(copy_view.board) = symbols_get(board)
                /\ copy_view.strict = strict)
    /\ [][(other.made /\ op' = "setitem" /\ nedits' # nedits)
             => copy_view' = copy_view]_vars
    /\ [][(op' = "setitem on the copy" /\ nedits' # nedits)
             => (board' = board /\ strict' = strict)]_vars

\* a space of the copy has been assigned and the two boards differ
C19_Witness ==
    /\ other.made
    /\ op = "setitem on the copy" /\ outcome = "ok"
    /\ board = pre.board
    /\ copy_view.board # board

\* the candidate the activation tried first
FirstTried(frame, ord) == InOrder(frame, ord)[1]

\* C21: no step changes the candidate sets or the chosen space of an
\* activation of solve_through_search that is there before and after it:
\* trying a candidate, whether it is pruned, fails or recurses, and the
\* return of a branch leave all 81 candidate sets of every caller as they
\* were.
C21_BranchIsolation ==
    [][\A i \in 1 .. Len(stack) :
          i <= Len(stack')
              => /\ stack'[i].bc = stack[i].bc
                 /\ stack'[i].x = stack[i].x
                 /\ stack'[i].y = stack[i].y]_vars

\* a branch that recursed has returned, and its caller, now the innermost
\* activation, has a sibling left to try
C21_Witness ==
    /\ pc = "search"
    /\ \E frame \in {stack[Len(stack)]} :
          /\ frame.todo # << >>
          /\ Len(frame.todo) < Cardinality(frame.bc[frame.x][frame.y])
          /\ \E st \in {try_candidate(frame, FirstTried(frame, order))} :
                /\ ~ st.raised
                /\ is_valid_board(make_board_from_candidates(st.bc))
                /\ ~ is_full(make_board_from_candidates(st.bc))

\* C22: when removing the candidate from the peers drives a candidate set
\* to empty, the pass ends there: the search goes on in the same
\* activation with the next candidate, nothing else changes, and no step
\* of the search ends solve with SudokuBoardException.
C22_ContradictionPrunes ==
    [][pc = "search"
          => /\ outcome' # "SudokuBoardException"
             /\ (/\ stack[Len(stack)].todo # << >>
                 /\ try_candidate(stack[Len(stack)],
                                  Head(stack[Len(stack)].todo)).raised)
                    => /\ pc' = "search"
                       /\ stack' = [stack EXCEPT ![Len(stack)].todo = Tail(@)]
                       /\ board' = board]_vars

\* the first candidate of the innermost activation met a contradiction and
\* the activation has the next one to try
C22_Witness ==
    /\ pc = "search"
    /\ \E frame \in {stack[Len(stack)]} :
          /\ Len(frame.todo) = Cardinality(frame.bc[frame.x][frame.y]) - 1
          /\ frame.todo # << >>
          /\ try_candidate(frame, FirstTried(frame, order)).raised

\* no two peers are down to the same single candidate
NoEqualPeers(bc) ==
    \A p \in PeerPairs :
        Cardinality(bc[p[1][1]][p[1][2]]) = 1
            => bc[p[1][1]][p[1][2]] # bc[p[2][1]][p[2][2]]

\* no two peers are down to the same candidate and the grid made from the
\* candidate sets passes the check of search step 3
PassesCheck(bc) ==
    /\ NoEqualPeers(bc)
    /\ is_valid_board(make_board_from_candidates(bc))

\* C26: the candidate sets the propagation of the givens returns and those
\* a pass of the search gets from remove_from_peers when it does not raise
\* have no two peers down to the same candidate, and is_valid_board
\* accepts the grid made from them.
C26_ValidityCheckNeverRejects ==
    /\ (op = "solve" /\ Len(stack) <= 1 /\ ~ prop.before.raised)
           => PassesCheck(prop.before.bc)
    /\ (pc = "search" /\ stack[Len(stack)].todo # << >>)
           => \A st \in {try_candidate(stack[Len(stack)],
                                       Head(stack[Len(stack)].todo))} :
                  ~ st.raised => PassesCheck(st.bc)

\* the next pass of an activation below the first returns candidate sets
\* with more spaces settled than its activation has, and the grid is valid
C26_Witness ==
    /\ pc = "search"
    /\ Len(stack) >= 2
    /\ stack[Len(stack)].todo # << >>
    /\ \E st \in {try_candidate(stack[Len(stack)],
                                Head(stack[Len(stack)].todo))} :
          /\ ~ st.raised
          /\ undetermined(st.bc) + 2 <= undetermined(stack[Len(stack)].bc)
          /\ is_valid_board(make_board_from_candidates(st.bc))

\* C27: no assertion of the solver fails: solve never ends with
\* AssertionError, no activation of the search holds an empty candidate
\* set, and the space an activation branches on has at least 2 candidates.
C27_AssertionsHold ==
    /\ outcome # "AssertionError"
    /\ run.outcome # "AssertionError"
    /\ \A i \in 1 .. Len(stack) :
          /\ \A c \in Cells : stack[i].bc[c[1]][c[2]] # {}
          /\ Cardinality(stack[i].bc[stack[i].x][stack[i].y]) >= 2

\* the propagation took candidates away and the search was entered on a
\* space that has exactly 2 left, from a branch whose grid was made
C27_Witness ==
    /\ pc = "search"
    /\ Len(stack) >= 2
    /\ Cardinality(stack[Len(stack)].bc[stack[Len(stack)].x]
                                       [stack[Len(stack)].y]) = 2
    /\ \A c \in Cells : stack[Len(stack)].bc[c[1]][c[2]] # {}

\* C30: solve on a board that is full and without repeats returns True and
\* leaves every symbol as it is; so does a second solve after one that
\* returned True.
C30_SolveIdempotent ==
    /\ (SolveDone /\ Full(pre.board) /\ NoRepeat(pre.board))
           => (outcome = "True" /\ board = pre.board)
    /\ (SolveDone /\ last.outcome = "True"
        /\ run.givens = Grid(last.symbols))
           => (outcome = "True" /\ symbols_get(board) = last.symbols)

\* the second of two calls of solve returned: the first had filled empty
\* spaces, the second got its full board back unchanged
C30_Witness ==
    /\ SolveDone /\ nsolves = 2 /\ nedits = 0
    /\ last.outcome = "True"
    /\ last.givens = Grid(B1_SYMBOLS)
    /\ pre.board = Grid(last.symbols)
    /\ outcome = "True"
    /\ board = pre.board

GivensReturned == pc = "givens" /\ returned(prop.st) /\ ~ prop.st.raised

\* C23: whenever remove_givens_from_board_candidates returns without
\* raising, the candidate set of every given is the set of its symbol
\* alone, and no peer of a space that is down to one candidate has that
\* candidate.
C23_PropagationPostcondition ==
    GivensReturned
        => /\ \A c \in Cells :
                 board[c[1]][c[2]] # EMPTY_SPACE
                     => prop.st.bc[c[1]][c[2]] = {board[c[1]][c[2]]}
           /\ \A p \in PeerPairs :
                 Cardinality(prop.st.bc[p[1][1]][p[1][2]]) = 1
                     => prop.st.bc[p[1][1]][p[1][2]]
                            \cap prop.st.bc[p[2][1]][p[2][2]] = {}

\* the propagation of LOOSE_SYMBOLS has returned: a space without a given
\* is down to one candidate, others are not
C23_Witness ==
    /\ GivensReturned
    /\ prop.pass = 1
    /\ board = Grid(LOOSE_SYMBOLS)
    /\ \E c \in Cells :
          /\ board[c[1]][c[2]] = EMPTY_SPACE
          /\ Cardinality(prop.st.bc[c[1]][c[2]]) = 1
    /\ \E c \in Cells : Cardinality(prop.st.bc[c[1]][c[2]]) > 1

\* B2_SYMBOLS with the 6 and 7 of columns 3, 4 and rows 0, 3 exchanged:
\* the other completion of TWO_SYMBOLS
B2_OTHER_SYMBOLS ==
    [i \in 1 .. FULL_BOARD_SIZE |->
        IF i \in {4, 32} THEN "7" ELSE IF i \in {5, 31} THEN "6"
        ELSE B2_SYMBOLS[i]]

\* B2_SYMBOLS with rows 1 and 2 exchanged
B2_SWAPPED_SYMBOLS ==
    [i \in 1 .. FULL_BOARD_SIZE |->
        IF (i - 1) \div BOARD_LENGTH = 1 THEN B2_SYMBOLS[i + BOARD_LENGTH]
        ELSE IF (i - 1) \div BOARD_LENGTH = 2 THEN B2_SYMBOLS[i - BOARD_LENGTH]
        ELSE B2_SYMBOLS[i]]

\* full boards without repeats
KnownGrids ==
    {g \in {Grid(B2_SYMBOLS), Grid(B2_OTHER_SYMBOLS),
            Grid(B2_SWAPPED_SYMBOLS)} : Full(g) /\ NoRepeat(g)}

\* C24: for every full board S without repeats that extends the givens,
\* at no step of the propagation of the givens has SudokuBoardException
\* been raised, and the candidate set of every space holds the symbol S
\* has there (so no candidate set is empty).
C24_PropagationSound ==
    pc = "givens"
        => \A S \in KnownGrids :
              Extends(S, board)
                  => /\ ~ prop.st.raised
                     /\ \A c \in Cells :
                           S[c[1]][c[2]] \in prop.st.bc[c[1]][c[2]]

\* the propagation of givens with three completions has returned, and
\* spaces are left with the symbols of all of them as candidates
C24_Witness ==
    /\ GivensReturned
    /\ prop.pass = 1
    /\ Cardinality({S \in KnownGrids : Extends(S, board)}) = 3
    /\ \A S \in KnownGrids :
          \A c \in Cells : S[c[1]][c[2]] \in prop.st.bc[c[1]][c[2]]
    /\ \E c \in Cells : Cardinality(prop.st.bc[c[1]][c[2]]) = 1
                        /\ board[c[1]][c[2]] = EMPTY_SPACE

\* C25: a second run of remove_givens_from_board_candidates on the
\* candidate sets a first run returned raises nothing and at none of its
\* steps are the candidate sets other than the first run left them.
C25_PropagationIdempotent ==
    (pc = "givens" /\ prop.pass = 2)
        => (~ prop.st.raised /\ prop.st.bc = prop.first)

\* the second run has returned on candidate sets that the first run took
\* candidates from and left some spaces of with more than one
C25_Witness ==
    /\ GivensReturned
    /\ prop.pass = 2
    /\ prop.st.bc = prop.first
    /\ prop.first # initial_candidates
    /\ undetermined(prop.first) > 0

\* C28: on the same givens, the propagation of the BasicSolver of
\* basicsudoku/__init__.py (givens row after row) raises exactly when that
\* of basicsudoku/solvers.py (givens column after column) raises, returns
\* the same 81 candidate sets when it returns, and solve ends the same
\* way: the same result or exception, and the same symbols on the board
\* when both iterate the candidate sets in the same order.
C28_ImplementationsAgree ==
    /\ (pc = "givens" /\ returned(prop.st) /\ prop.pass = 1
        /\ prop.impl = "__init__")
           => /\ prop.before.impl = "solvers"
              /\ prop.st.raised = prop.before.raised
              /\ ~ prop.st.raised => prop.st.bc = prop.before.bc
    /\ (SolveDone /\ prop.before.impl = "__init__")
           => /\ run.givens = last.givens
              /\ run.outcome = last.outcome
              /\ run.order = last.order => run.symbols = last.symbols

\* both solvers have solved TWO_SYMBOLS, whose givens they visit in
\* different orders and which needs the search
C28_Witness ==
    /\ SolveDone
    /\ prop.before.impl = "__init__"
    /\ ~ prop.before.raised
    /\ undetermined(prop.before.bc) > 0
    /\ run.givens = Grid(TWO_SYMBOLS)
    /\ last.givens = run.givens
    /\ run.order = last.order
    /\ run.outcome = "True"
    /\ run.symbols = last.symbols

=============================================================================
